---- MODULE Spec2Model ----
(***************************************************************************)
(* Points ledger and wallet accounting of wisereels-backend                *)
(* (src/src/services/wallet.service.ts): watch recording, the maturation   *)
(* sweep, redemption and the cached wallet read, as concurrent request     *)
(* handlers that interleave at every await on the store or the cache.      *)
(* Time is counted in days.                                                *)
(***************************************************************************)
EXTENDS Integers, Sequences, FiniteSets, TLC

\* ------------------------------------------------------------------ bounds
MaxNow == 30
MaxWrites == 3

\* ------------------------------------------------------- program constants
HoldingDays == 30
ExpiryDays == 90
MinWatchSeconds == 5
RateWindowSeconds == 600
DefaultRate == 100
MinRedeemPoints == 100

Users == {"u1", "u2"}
Procs == {"p1", "p2"}

\* inputs of the request handlers: both users watch videos, u1 also sends
\* heartbeats, reads its wallet and redeems
Watchers == Users
Spenders == {"u1"}
Durations == {4, 600}
HeartbeatDurations == {4}
Categories == {"FINANCE"}
Videos == {"v1"}
Amounts == {300}
\* inputs of the HTTP layer: the amounts asked for and the role of the
\* caller ("none" when the request carries no valid token)
RequestAmounts == {0 - 100, 0, 99, 100, 300}
Callers == {"ADMIN", "CREATOR", "USER", "none"}
\* the redemption types redemptionSchema lets through
RedemptionTypes == {"UPI", "GIFT_CARD", "RECHARGE"}

\* inputs of the rate computation
RateDurations == {3, 4, 5, 9, 30, 174, 342, 600}
RateCategories == {"FINANCE", "HEALTH", "FITNESS", "EDUCATION", "ENTERTAINMENT", "OTHER"}
\* the heartbeat route takes any string of up to 50 characters
HeartbeatCategories == RateCategories \cup {"finance", "constructor"}
Tiers == {"none", "pending", "verified"}
\* the values the code writes to users.expert_status: the default, and
\* 'approved' on the approval of an expert application
StoredTiers == Tiers \cup {"approved"}

VARIABLES
  wallet,        \* table wallet: user_id -> row, or Null when there is no row
  ledger,        \* table ledger_transactions, in insertion order (id = index)
  transactions,  \* table transactions, in insertion order
  redemptions,   \* table redemption_requests, in insertion order
  cache,         \* cache key wallet:<user_id> -> cached row, or Null
  users,         \* table users: id -> row, or Null when there is no row
  now,           \* the clock, in days
  proc,          \* per request handler: position and locals
  lastSweep      \* "once" when a sweep has completed over the present clock
                 \* and ledger rows, "again" when another one followed it

vars == <<wallet, ledger, transactions, redemptions, cache, users,
          now, proc, lastSweep>>

Null == [null |-> TRUE]
NullDate == 0 - 1

ZeroWallet ==
  [pending_points |-> 0, available_points |-> 0,
   total_earned |-> 0, total_redeemed |-> 0]

Idle ==
  [pc |-> "idle", op |-> "none", role |-> "", user |-> "u1", video |-> "",
   dur |-> 0, cat |-> "",
   mult |-> 0, points |-> 0, amount |-> 0, t |-> 0, w |-> Null,
   sel |-> <<>>, selLen |-> 0, n |-> 0, method |-> "",
   result |-> "none"]

\* ------------------------------------------------------------- rate model
EARNING_RATES ==
  [FINANCE |-> 500, HEALTH |-> 400, FITNESS |-> 300, EDUCATION |-> 200,
   ENTERTAINMENT |-> 100]

\* the double NaN: every comparison with it is false
NaN == 0 - 1

\* keys that the object literal EARNING_RATES inherits from Object.prototype
ObjectPrototypeKeys ==
  {"constructor", "toString", "valueOf", "hasOwnProperty", "__proto__"}

\* EARNING_RATES[category] || 100: an inherited key yields a function (an
\* object for __proto__), which is truthy and is NaN in the multiplication
RatePerTenMin(category) ==
  IF category \in DOMAIN EARNING_RATES THEN EARNING_RATES[category]
  ELSE IF category \in ObjectPrototypeKeys THEN NaN
  ELSE DefaultRate

\* (duration, rate) pairs up to 700 seconds whose double-precision product
\* (duration / 600) * rate lands just below the exact integer quotient
FloatShort ==
  ({174, 342, 348, 678, 684, 690, 696} \X {100})
  \cup ({87, 171, 174, 339, 342, 345, 348, 603, 609, 615, 621, 678, 684,
         690, 696} \X {200, 400})
  \cup ({110, 158, 194, 220, 246, 316, 342, 388, 414, 440, 466, 492, 626,
         632, 678, 684} \X {300})

\* Math.floor((watchDurationSeconds / 600) * ratePerTenMin), in doubles
BasePoints(duration, rate) ==
  LET exact == (duration * rate) \div RateWindowSeconds
  IN  IF rate = NaN THEN NaN
      ELSE IF <<duration, rate>> \in FloatShort THEN exact - 1 ELSE exact

multiplierMap == [verified |-> 5, pending |-> 3, none |-> 1]

\* multiplierMap[expert_status] || 1
TierMultiplier(status) ==
  IF status \in DOMAIN multiplierMap THEN multiplierMap[status] ELSE 1

\* Math.floor(basePoints * tierMultiplier), a product of two integers
PointsWithMultiplier(basePoints, tierMultiplier) ==
  IF basePoints = NaN THEN NaN ELSE basePoints * tierMultiplier

\* ------------------------------------------------------------ store, cache
\* an UPDATE that assigns the deltas instead of adding them
ApplyDeltaAssign(w, u, dp, da) ==
  IF w[u] = Null THEN w
  ELSE [w EXCEPT ![u].pending_points = dp, ![u].available_points = da]

\* UPDATE wallet SET pending_points = pending_points + dp,
\*                   available_points = available_points + da WHERE user_id = u
ApplyDelta(w, u, dp, da) ==
  IF w[u] = Null THEN w
  ELSE [w EXCEPT ![u].pending_points = @ + dp,
                 ![u].available_points = @ + da]

CacheDel(c, u) == [c EXCEPT ![u] = Null]

EarnRow(u, v, points, t) ==
  [user_id |-> u, video_id |-> v, transaction_type |-> "EARN",
   points |-> points,
   status |-> "POSTED", posted_at |-> t, available_at |-> t + HoldingDays,
   expires_at |-> (t + HoldingDays) + ExpiryDays]

\* the handler has finished with outcome res ("ok", or "error" for a throw)
Finished(r, res) ==
  [Idle EXCEPT !.pc = "done", !.op = r.op, !.role = r.role,
               !.amount = r.amount, !.result = res]

Done(p, res) == [proc EXCEPT ![p] = Finished(proc[p], res)]

\* the HTTP layer answers the request r with an AppError before any service
\* is called
Refused(r, res) == [r EXCEPT !.pc = "done", !.result = res]

\* a request is taken by the first free worker
Free(p) == /\ proc[p].pc = "idle"
           /\ \A q \in Procs : (q = "p1" /\ p # q) => proc[q].pc # "idle"

Rows(table, type) == {i \in DOMAIN table : table[i].transaction_type = type}

\* handlers that have been admitted and have not inserted their row yet
Inserting ==
  {q \in Procs : \/ proc[q].pc = "hb_insert"
                 \/ proc[q].op = "redeem" /\
                      proc[q].pc \in {"gw_read", "gw_set", "rd_request"}}

\* the number of earn, heartbeat and redemption rows written or under way
Writes ==
  Cardinality(Rows(ledger, "EARN")) + Len(transactions) + Len(redemptions)
    + Cardinality(Inserting)

\* ------------------------------------------------------------------- Init
Init ==
  /\ wallet = [u \in Users |-> ZeroWallet]
  /\ ledger = <<>>
  /\ transactions = <<>>
  /\ redemptions = <<>>
  /\ cache = [u \in Users |-> Null]
  /\ users = [u \in Users |->
                [expert_status |-> IF u = "u1" THEN "verified" ELSE "none"]]
  /\ now = 0
  /\ proc = [p \in Procs |-> Idle]
  /\ lastSweep = "none"

\* the handler hands its response back and the worker is free again
Return(p) ==
  /\ proc[p].pc = "done"
  /\ proc' = [proc EXCEPT ![p] = Idle]
  /\ UNCHANGED <<wallet, ledger, transactions, redemptions, cache,
                 users, now, lastSweep>>

\* a holding period passes between requests (a request does not take
\* days); every cached wallet (TTL 30 seconds) has expired by then
Advance(horizon) ==
  /\ \A p \in Procs : proc[p].pc \in {"idle", "done"}
  /\ now + HoldingDays <= horizon
  /\ now' = now + HoldingDays
  /\ cache' = [u \in Users |-> Null]
  /\ lastSweep' = "none"
  /\ UNCHANGED <<wallet, ledger, transactions, redemptions, users,
                 proc>>

Tick == Advance(MaxNow)

\* ------------------------------------------------------- recordWatchEvent
\* validation, rate computation and the INSERT of recordEarning (category
\* is one of the values of watchEventSchema, so the rate is a number)
RecordWatchEvent(p, u, v, d, c) ==
  /\ Free(p)
  /\ LET points == BasePoints(d, RatePerTenMin(c))
         call == [Idle EXCEPT !.op = "watchEvent", !.user = u, !.video = v,
                              !.dur = d, !.cat = c]
     IN  IF d < MinWatchSeconds \/ points <= 0
         THEN /\ proc' = [proc EXCEPT ![p] = Finished(call, "ok")]
              /\ UNCHANGED <<ledger, lastSweep>>
         ELSE /\ Writes < MaxWrites
              /\ ledger' = Append(ledger, EarnRow(u, v, points, now))
              /\ lastSweep' = "none"
              /\ proc' = [proc EXCEPT ![p] = [call EXCEPT !.pc = "we_update",
                                                    !.points = points]]
  /\ UNCHANGED <<wallet, transactions, redemptions, cache, users,
                 now>>

\* updateWalletPending: the UPDATE
WE_Update(p) ==
  /\ proc[p].pc = "we_update"
  /\ wallet' = ApplyDelta(wallet, proc[p].user, proc[p].points, 0)
  /\ proc' = [proc EXCEPT ![p].pc = "we_del"]
  /\ UNCHANGED <<ledger, transactions, redemptions, cache, users,
                 now, lastSweep>>

\* updateWalletPending: cache.del
WE_Del(p) ==
  /\ proc[p].pc = "we_del"
  /\ cache' = CacheDel(cache, proc[p].user)
  /\ proc' = Done(p, "ok")
  /\ UNCHANGED <<wallet, ledger, transactions, redemptions, users,
                 now, lastSweep>>

\* --------------------------------------------------------------- getWallet
\* what the caller of getWallet does with the wallet w it gets back
AfterGetWallet(r, w) ==
  CASE r.op = "redeem" ->
         IF w = Null \/ w.available_points < r.amount
         THEN Finished(r, "error")
         ELSE [r EXCEPT !.pc = "rd_request", !.t = now, !.w = Null]
    [] r.op = "heartbeat" ->
         IF w = Null THEN Finished(r, "error") ELSE Finished(r, "ok")
    [] OTHER -> Finished(r, "ok")

\* cache.get: a hit is returned at once, a miss goes on to the store
CacheGet(r) ==
  IF cache[r.user] # Null THEN AfterGetWallet(r, cache[r.user])
  ELSE [r EXCEPT !.pc = "gw_read"]

GetWallet(p, u) ==
  /\ Free(p)
  /\ proc' = [proc EXCEPT ![p] =
                CacheGet([Idle EXCEPT !.op = "getWallet", !.user = u])]
  /\ UNCHANGED <<wallet, ledger, transactions, redemptions, cache,
                 users, now, lastSweep>>

\* getWallet called at the end of recordWatchHeartbeat
GW_CacheGet(p) ==
  /\ proc[p].pc = "gw_get"
  /\ proc' = [proc EXCEPT ![p] = CacheGet(proc[p])]
  /\ UNCHANGED <<wallet, ledger, transactions, redemptions, cache,
                 users, now, lastSweep>>

\* SELECT * FROM wallet WHERE user_id = $1
GW_DbRead(p) ==
  /\ proc[p].pc = "gw_read"
  /\ LET w == wallet[proc[p].user]
     IN  proc' = [proc EXCEPT ![p] =
                    IF w # Null THEN [proc[p] EXCEPT !.pc = "gw_set", !.w = w]
                    ELSE AfterGetWallet(proc[p], Null)]
  /\ UNCHANGED <<wallet, ledger, transactions, redemptions, cache,
                 users, now, lastSweep>>

\* cache.set of the row that was read
GW_CacheSet(p) ==
  /\ proc[p].pc = "gw_set"
  /\ cache' = [cache EXCEPT ![proc[p].user] = proc[p].w]
  /\ proc' = [proc EXCEPT ![p] = AfterGetWallet(proc[p], proc[p].w)]
  /\ UNCHANGED <<wallet, ledger, transactions, redemptions, users,
                 now, lastSweep>>

\* ---------------------------------------------------- recordWatchHeartbeat
\* SELECT users FROM users and the multiplier lookup
RecordWatchHeartbeat(p, u, v, d, c) ==
  /\ Free(p)
  /\ Writes < MaxWrites
  /\ LET call == [Idle EXCEPT !.op = "heartbeat", !.user = u, !.video = v,
                              !.dur = d, !.cat = c]
     IN  proc' = [proc EXCEPT ![p] =
                    IF users[u] = Null THEN Finished(call, "error")
                    ELSE [call EXCEPT !.pc = "hb_insert",
                                      !.mult =
                                        TierMultiplier(
                                          users[u].expert_status)]]
  /\ UNCHANGED <<wallet, ledger, transactions, redemptions, cache,
                 users, now, lastSweep>>

\* the points computation and the INSERT INTO transactions
HB_Insert(p) ==
  /\ proc[p].pc = "hb_insert"
  /\ LET r == proc[p]
         points == PointsWithMultiplier(
                     BasePoints(r.dur, RatePerTenMin(r.cat)), r.mult)
     IN  IF points # NaN /\ points > 0
         THEN /\ transactions' =
                   Append(transactions,
                          [user_id |-> r.user, type |-> "earn",
                           amount |-> points, video_id |-> r.video])
              /\ proc' = [proc EXCEPT ![p].pc = "hb_update",
                                      ![p].points = points]
         ELSE /\ proc' = [proc EXCEPT ![p] = CacheGet(r)]
              /\ UNCHANGED transactions
  /\ UNCHANGED <<wallet, ledger, redemptions, cache, users, now,
                 lastSweep>>

HB_Update(p) ==
  /\ proc[p].pc = "hb_update"
  /\ wallet' = ApplyDelta(wallet, proc[p].user, proc[p].points, 0)
  /\ proc' = [proc EXCEPT ![p].pc = "hb_del"]
  /\ UNCHANGED <<ledger, transactions, redemptions, cache, users,
                 now, lastSweep>>

HB_Del(p) ==
  /\ proc[p].pc = "hb_del"
  /\ cache' = CacheDel(cache, proc[p].user)
  /\ proc' = [proc EXCEPT ![p].pc = "gw_get"]
  /\ UNCHANGED <<wallet, ledger, transactions, redemptions, users,
                 now, lastSweep>>

\* ----------------------------------------------- processPendingToAvailable
\* a selection that forgets the status, and one that forgets the 30 days
MaturableAnyStatus(row, t) ==
  row.transaction_type = "EARN" /\ row.posted_at <= t - HoldingDays

\* a selection that leaves out the entry that is exactly 30 days old
MaturableAfterHold(row, t) ==
  row.status = "POSTED" /\ row.posted_at < t - HoldingDays

MaturableNoHold(row, t) ==
  row.status = "POSTED" /\ row.posted_at <= t

\* WHERE status = 'POSTED' AND posted_at <= NOW() - INTERVAL '30 days'
Maturable(row, t) ==
  row.status = "POSTED" /\ row.posted_at <= t - HoldingDays

Ids(table) == [i \in 1..Len(table) |-> i]

\* ids of the selected rows
SelectMaturable(table, t) ==
  LET Test(i) == Maturable(table[i], t)
  IN  SelectSeq(Ids(table), Test)

\* an UPDATE that also moves posted_at to the day the points became available
SetAvailableRestamped(table, id) ==
  [table EXCEPT ![id].status = "AVAILABLE",
                ![id].posted_at = table[id].available_at]

\* UPDATE ledger_transactions SET status = 'AVAILABLE' WHERE id = $2
SetAvailable(table, id) == [table EXCEPT ![id].status = "AVAILABLE"]

\* a completed sweep ran at this clock over these ledger rows
SameEntrySet == lastSweep # "none"

\* what a caller of processPendingToAvailable gets back: nothing
Void == 0 - 1

\* processPendingToAvailable(): Promise<void>; transactions.length is only
\* written to the log
SweepReturn(length) == Void

\* the sweep inside the request req, which carries the caller's role
ProcessPendingToAvailableIn(p, req) ==
  /\ Free(p)
  /\ LET sel == SelectMaturable(ledger, now)
         call == [req EXCEPT !.op = "sweep", !.sel = sel,
                             !.selLen = Len(ledger), !.n = Len(sel)]
     IN  IF sel = <<>>
         THEN /\ proc' = [proc EXCEPT ![p] = Finished(call, "ok")]
              /\ lastSweep' = IF SameEntrySet THEN "again" ELSE "once"
         ELSE /\ proc' = [proc EXCEPT ![p] = [call EXCEPT !.pc = "sw_status"]]
              /\ UNCHANGED lastSweep
  /\ UNCHANGED <<wallet, ledger, transactions, redemptions, cache,
                 users, now>>

ProcessPendingToAvailable(p) == ProcessPendingToAvailableIn(p, Idle)

SW_Status(p) ==
  /\ proc[p].pc = "sw_status"
  /\ ledger' = SetAvailable(ledger, Head(proc[p].sel))
  /\ proc' = [proc EXCEPT ![p].pc = "sw_wallet"]
  /\ UNCHANGED <<wallet, transactions, redemptions, cache, users,
                 now, lastSweep>>

\* a wallet UPDATE that credits available_points and forgets pending_points
SW_WalletCreditOnly(p) ==
  /\ proc[p].pc = "sw_wallet"
  /\ LET row == ledger[Head(proc[p].sel)]
     IN  wallet' = ApplyDelta(wallet, row.user_id, 0, row.points)
  /\ proc' = [proc EXCEPT ![p].pc = "sw_del"]
  /\ UNCHANGED <<ledger, transactions, redemptions, cache, users,
                 now, lastSweep>>

SW_Wallet(p) ==
  /\ proc[p].pc = "sw_wallet"
  /\ LET row == ledger[Head(proc[p].sel)]
     IN  wallet' = ApplyDelta(wallet, row.user_id, 0 - row.points, row.points)
  /\ proc' = [proc EXCEPT ![p].pc = "sw_del"]
  /\ UNCHANGED <<ledger, transactions, redemptions, cache, users,
                 now, lastSweep>>

SW_Del(p) ==
  /\ proc[p].pc = "sw_del"
  /\ cache' = CacheDel(cache, ledger[Head(proc[p].sel)].user_id)
  /\ IF Tail(proc[p].sel) = <<>>
     THEN /\ proc' = Done(p, "ok")
          /\ lastSweep' = IF proc[p].selLen = Len(ledger) THEN "once"
                          ELSE lastSweep
     ELSE /\ proc' = [proc EXCEPT ![p].pc = "sw_status",
                                  ![p].sel = Tail(@)]
          /\ UNCHANGED lastSweep
  /\ UNCHANGED <<wallet, ledger, transactions, redemptions, users,
                 now>>

\* POST /process-pending: authMiddleware, roleMiddleware('ADMIN') and the
\* controller's own test of req.user.role
Authenticated(role) == role # "none"

roleMiddleware(role, allowedRoles) ==
  Authenticated(role) /\ role \in allowedRoles

MayProcessPendingAnyUser(role) == Authenticated(role)

MayProcessPending(role) ==
  /\ Authenticated(role)
  /\ roleMiddleware(role, {"ADMIN"})
  /\ role = "ADMIN"

ProcessPendingPoints(p, role) ==
  IF MayProcessPending(role)
  THEN ProcessPendingToAvailableIn(p, [Idle EXCEPT !.role = role])
  ELSE /\ Free(p)
       /\ proc' = [proc EXCEPT ![p] =
                     Refused([Idle EXCEPT !.op = "processPending",
                                          !.role = role],
                             IF Authenticated(role) THEN "forbidden"
                             ELSE "unauthorized")]
       /\ UNCHANGED <<wallet, ledger, transactions, redemptions, cache,
                      users, now, lastSweep>>

\* ------------------------------------------------------------ redeemPoints
\* redeemPoints inside the request req, which carries the redemption type
\* of the body; the service is handed userId and pointsToRedeem only
RedeemPointsIn(p, u, amt, req) ==
  /\ Free(p)
  /\ Writes < MaxWrites
  /\ proc' = [proc EXCEPT ![p] =
                CacheGet([req EXCEPT !.op = "redeem", !.user = u,
                                     !.amount = amt])]
  /\ UNCHANGED <<wallet, ledger, transactions, redemptions, cache,
                 users, now, lastSweep>>

RedeemPoints(p, u, amt) == RedeemPointsIn(p, u, amt, Idle)

\* INSERT INTO redemption_requests
RD_Request(p) ==
  /\ proc[p].pc = "rd_request"
  /\ redemptions' =
       Append(redemptions,
              [user_id |-> proc[p].user, amount_points |-> proc[p].amount,
               redemption_type |-> "UPI", status |-> "PENDING"])
  /\ proc' = [proc EXCEPT ![p].pc = "rd_wallet"]
  /\ UNCHANGED <<wallet, ledger, transactions, cache, users, now,
                 lastSweep>>

\* UPDATE wallet SET available_points = available_points - $1
RD_Wallet(p) ==
  /\ proc[p].pc = "rd_wallet"
  /\ wallet' = ApplyDelta(wallet, proc[p].user, 0, 0 - proc[p].amount)
  /\ proc' = [proc EXCEPT ![p].pc = "rd_ledger"]
  /\ UNCHANGED <<ledger, transactions, redemptions, cache, users,
                 now, lastSweep>>

\* INSERT INTO ledger_transactions of the REDEEMED debit
RD_Ledger(p) ==
  /\ proc[p].pc = "rd_ledger"
  /\ ledger' =
       Append(ledger,
              [user_id |-> proc[p].user, transaction_type |-> "REDEEMED",
               video_id |-> "", points |-> 0 - proc[p].amount,
               status |-> "REDEEMED",
               posted_at |-> proc[p].t, available_at |-> NullDate,
               expires_at |-> NullDate])
  /\ lastSweep' = "none"
  /\ proc' = [proc EXCEPT ![p].pc = "rd_del"]
  /\ UNCHANGED <<wallet, transactions, redemptions, cache, users,
                 now>>

RD_Del(p) ==
  /\ proc[p].pc = "rd_del"
  /\ cache' = CacheDel(cache, proc[p].user)
  /\ proc' = Done(p, "ok")
  /\ UNCHANGED <<wallet, ledger, transactions, redemptions, users,
                 now, lastSweep>>

\* ------------------------------------------------ AuthService.registerUser
\* a user is known by its username; SELECT * FROM users WHERE username = $1
RegisterUser(p, u) ==
  /\ Free(p)
  /\ LET call == [Idle EXCEPT !.op = "register", !.user = u]
     IN  proc' = [proc EXCEPT ![p] =
                    IF users[u] # Null THEN Finished(call, "error")
                    ELSE [call EXCEPT !.pc = "ru_insert"]]
  /\ UNCHANGED <<wallet, ledger, transactions, redemptions, cache, users,
                 now, lastSweep>>

\* INSERT INTO users; username is UNIQUE and expert_status defaults to none
RU_InsertUser(p) ==
  /\ proc[p].pc = "ru_insert"
  /\ IF users[proc[p].user] # Null
     THEN /\ proc' = Done(p, "error")
          /\ UNCHANGED users
     ELSE /\ users' = [users EXCEPT ![proc[p].user] =
                                      [expert_status |-> "none"]]
          /\ proc' = [proc EXCEPT ![p].pc = "ru_wallet"]
  /\ UNCHANGED <<wallet, ledger, transactions, redemptions, cache, now,
                 lastSweep>>

\* initializeWallet: INSERT INTO wallet (...) VALUES ($1, 0, 0, 0, 0, now)
RU_InitWallet(p) ==
  /\ proc[p].pc = "ru_wallet"
  /\ wallet' = [wallet EXCEPT ![proc[p].user] = ZeroWallet]
  /\ proc' = Done(p, "ok")
  /\ UNCHANGED <<ledger, transactions, redemptions, cache, users, now,
                 lastSweep>>

\* POST /redeem: redemptionSchema (an integer, at least 100) and the
\* controller's tests !pointsToRedeem and pointsToRedeem < 100
ValidRedemptionPositive(amt) == amt > 0

ValidRedemption(amt) == amt # 0 /\ amt >= MinRedeemPoints

RedeemPointsRequest(p, u, amt, redemptionType) ==
  IF ValidRedemption(amt) /\ redemptionType \in RedemptionTypes
  THEN RedeemPointsIn(p, u, amt, [Idle EXCEPT !.method = redemptionType])
  ELSE /\ Free(p)
       /\ proc' = [proc EXCEPT ![p] =
                     Refused([Idle EXCEPT !.op = "redeemRequest",
                                          !.user = u, !.amount = amt,
                                          !.method = redemptionType],
                             "invalid")]
       /\ UNCHANGED <<wallet, ledger, transactions, redemptions, cache,
                      users, now, lastSweep>>

\* a query on the store is rejected (db.query rethrows) while handler p, in
\* one of the operations ops, waits for it; the handler logs and rethrows
StoreSteps ==
  {"we_update", "hb_insert", "hb_update", "gw_read", "sw_status",
   "sw_wallet", "rd_request", "rd_wallet", "rd_ledger", "ru_insert",
   "ru_wallet"}

StoreFails(p, ops) ==
  /\ proc[p].op \in ops
  /\ proc[p].pc \in StoreSteps
  /\ proc' = Done(p, "error")
  /\ UNCHANGED <<wallet, ledger, transactions, redemptions, cache, users,
                 now, lastSweep>>

Next ==
  \/ Tick
  \/ \E p \in Procs : Return(p)
  \/ \E p \in Procs, u \in Watchers, v \in Videos, d \in Durations,
          c \in Categories :
       RecordWatchEvent(p, u, v, d, c)
  \/ \E p \in Procs : WE_Update(p)
  \/ \E p \in Procs : WE_Del(p)
  \/ \E p \in Procs, u \in Spenders, v \in Videos,
          d \in HeartbeatDurations, c \in Categories :
       RecordWatchHeartbeat(p, u, v, d, c)
  \/ \E p \in Procs : HB_Insert(p)
  \/ \E p \in Procs : HB_Update(p)
  \/ \E p \in Procs : HB_Del(p)
  \/ \E p \in Procs, u \in Spenders : GetWallet(p, u)
  \/ \E p \in Procs : GW_CacheGet(p)
  \/ \E p \in Procs : GW_DbRead(p)
  \/ \E p \in Procs : GW_CacheSet(p)
  \/ \E p \in Procs : ProcessPendingToAvailable(p)
  \/ \E p \in Procs : SW_Status(p)
  \/ \E p \in Procs : SW_Wallet(p)
  \/ \E p \in Procs : SW_Del(p)
  \/ \E p \in Procs, u \in Spenders, amt \in Amounts : RedeemPoints(p, u, amt)
  \/ \E p \in Procs : RD_Request(p)
  \/ \E p \in Procs : RD_Wallet(p)
  \/ \E p \in Procs : RD_Ledger(p)
  \/ \E p \in Procs : RD_Del(p)

Spec == Init /\ [][Next]_vars

\* ----------------------------------------------- the HTTP layer in front
\* the wallet routes as a client reaches them: u1 watches, any caller asks
\* for the sweep, u1 asks to redeem any amount
NextHttp ==
  \/ Tick
  \/ \E p \in Procs : Return(p)
  \/ \E p \in Procs, v \in Videos, c \in Categories :
       RecordWatchEvent(p, "u1", v, RateWindowSeconds, c)
  \/ \E p \in Procs : WE_Update(p)
  \/ \E p \in Procs : WE_Del(p)
  \/ \E p \in Procs : GW_DbRead(p)
  \/ \E p \in Procs : GW_CacheSet(p)
  \/ \E p \in Procs, role \in Callers : ProcessPendingPoints(p, role)
  \/ \E p \in Procs : SW_Status(p)
  \/ \E p \in Procs : SW_Wallet(p)
  \/ \E p \in Procs : SW_Del(p)
  \/ \E p \in Procs, amt \in RequestAmounts, m \in RedemptionTypes :
       RedeemPointsRequest(p, "u1", amt, m)
  \/ \E p \in Procs : RD_Request(p)
  \/ \E p \in Procs : RD_Wallet(p)
  \/ \E p \in Procs : RD_Ledger(p)
  \/ \E p \in Procs : RD_Del(p)

SpecHttp == Init /\ [][NextHttp]_vars

\* ------------------------------------------------- one worker and faults
\* requests served one after the other, with the store rejecting queries of
\* redeemPoints
NextRedeemFault ==
  \/ Tick
  \/ Return("p1")
  \/ \E v \in Videos, c \in Categories :
       RecordWatchEvent("p1", "u1", v, RateWindowSeconds, c)
  \/ WE_Update("p1")
  \/ WE_Del("p1")
  \/ GW_DbRead("p1")
  \/ GW_CacheSet("p1")
  \/ ProcessPendingToAvailable("p1")
  \/ SW_Status("p1")
  \/ SW_Wallet("p1")
  \/ SW_Del("p1")
  \/ \E amt \in Amounts : RedeemPoints("p1", "u1", amt)
  \/ RD_Request("p1")
  \/ RD_Wallet("p1")
  \/ RD_Ledger("p1")
  \/ RD_Del("p1")
  \/ StoreFails("p1", {"redeem"})

SpecRedeemFault == Init /\ [][NextRedeemFault]_vars

\* the same, with the store rejecting queries of processPendingToAvailable
NextSweepFault ==
  \/ Tick
  \/ Return("p1")
  \/ \E u \in Watchers, v \in Videos, c \in Categories :
       RecordWatchEvent("p1", u, v, RateWindowSeconds, c)
  \/ WE_Update("p1")
  \/ WE_Del("p1")
  \/ ProcessPendingToAvailable("p1")
  \/ SW_Status("p1")
  \/ SW_Wallet("p1")
  \/ SW_Del("p1")
  \/ StoreFails("p1", {"sweep"})

SpecSweepFault == Init /\ [][NextSweepFault]_vars

\* ------------------------------------------------- watch recordings only
\* both workers record watches, so that recordings of one user overlap
NextEarn ==
  \/ \E p \in Procs : Return(p)
  \/ \E p \in Procs, u \in Watchers, v \in Videos, d \in Durations,
          c \in Categories :
       RecordWatchEvent(p, u, v, d, c)
  \/ \E p \in Procs : WE_Update(p)
  \/ \E p \in Procs : WE_Del(p)
  \/ \E p \in Procs, u \in Spenders, v \in Videos,
          d \in HeartbeatDurations, c \in Categories :
       RecordWatchHeartbeat(p, u, v, d, c)
  \/ \E p \in Procs : HB_Insert(p)
  \/ \E p \in Procs : HB_Update(p)
  \/ \E p \in Procs : HB_Del(p)
  \/ \E p \in Procs : GW_CacheGet(p)
  \/ \E p \in Procs : GW_DbRead(p)
  \/ \E p \in Procs : GW_CacheSet(p)

SpecEarn == Init /\ [][NextEarn]_vars

\* ------------------------------------------------------ account creation
\* the store before anybody has registered
InitAccount ==
  /\ wallet = [u \in Users |-> Null]
  /\ ledger = <<>>
  /\ transactions = <<>>
  /\ redemptions = <<>>
  /\ cache = [u \in Users |-> Null]
  /\ users = [u \in Users |-> Null]
  /\ now = 0
  /\ proc = [p \in Procs |-> Idle]
  /\ lastSweep = "none"

\* users register (the store may reject a query of registerUser), send
\* heartbeats and read their wallet
NextAccount ==
  \/ \E p \in Procs : Return(p)
  \/ \E p \in Procs, u \in Users : RegisterUser(p, u)
  \/ \E p \in Procs : RU_InsertUser(p)
  \/ \E p \in Procs : RU_InitWallet(p)
  \/ \E p \in Procs : StoreFails(p, {"register"})
  \/ \E p \in Procs, u \in Users, v \in Videos, d \in HeartbeatDurations,
          c \in Categories :
       RecordWatchHeartbeat(p, u, v, d, c)
  \/ \E p \in Procs : HB_Insert(p)
  \/ \E p \in Procs : HB_Update(p)
  \/ \E p \in Procs : HB_Del(p)
  \/ \E p \in Procs : GW_CacheGet(p)
  \/ \E p \in Procs : GW_DbRead(p)
  \/ \E p \in Procs : GW_CacheSet(p)

SpecAccount == InitAccount /\ [][NextAccount]_vars

\* ------------------------------------------------------- up to the expiry
\* the day on which the points of a watch at day 0 expire
ExpiryHorizon == HoldingDays + ExpiryDays

\* one worker records watches of u1 and runs the sweep while the clock goes
\* on until the first entries have expired
NextExpiry ==
  \/ Advance(ExpiryHorizon)
  \/ Return("p1")
  \/ \E v \in Videos, c \in Categories :
       RecordWatchEvent("p1", "u1", v, RateWindowSeconds, c)
  \/ WE_Update("p1")
  \/ WE_Del("p1")
  \/ ProcessPendingToAvailable("p1")
  \/ SW_Status("p1")
  \/ SW_Wallet("p1")
  \/ SW_Del("p1")

SpecExpiry == Init /\ [][NextExpiry]_vars

\* -------------------------------------------------------- deleteAccount
\* SELECT username FROM users; the users row is anonymised and kept
DeleteAccount(p, u) ==
  /\ Free(p)
  /\ LET call == [Idle EXCEPT !.op = "deleteAccount", !.user = u]
     IN  proc' = [proc EXCEPT ![p] =
                    IF users[u] = Null THEN Finished(call, "error")
                    ELSE [call EXCEPT !.pc = "da_wallet"]]
  /\ UNCHANGED <<wallet, ledger, transactions, redemptions, cache,
                 users, now, lastSweep>>

\* DELETE FROM wallet WHERE user_id = u; the user_deletions row that
\* follows holds the username only, and the cache is not touched
DA_DeleteWallet(p) ==
  /\ proc[p].pc = "da_wallet"
  /\ wallet' = [wallet EXCEPT ![proc[p].user] = Null]
  /\ proc' = Done(p, "ok")
  /\ UNCHANGED <<ledger, transactions, redemptions, cache, users,
                 now, lastSweep>>

\* one worker records watches, deletes accounts and runs the sweep
NextDeletion ==
  \/ Tick
  \/ Return("p1")
  \/ \E u \in Watchers, v \in Videos, c \in Categories :
       RecordWatchEvent("p1", u, v, RateWindowSeconds, c)
  \/ WE_Update("p1")
  \/ WE_Del("p1")
  \/ \E u \in Users : DeleteAccount("p1", u)
  \/ DA_DeleteWallet("p1")
  \/ ProcessPendingToAvailable("p1")
  \/ SW_Status("p1")
  \/ SW_Wallet("p1")
  \/ SW_Del("p1")

SpecDeletion == Init /\ [][NextDeletion]_vars

\* ------------------------------------------- watches of day 0, matured
\* one worker records watches through both entry points on day 0 only, the
\* clock goes on and the sweep runs
NextMature ==
  \/ Tick
  \/ Return("p1")
  \/ \E u \in Watchers, v \in Videos, c \in Categories :
       now = 0 /\ RecordWatchEvent("p1", u, v, RateWindowSeconds, c)
  \/ WE_Update("p1")
  \/ WE_Del("p1")
  \/ \E u \in Watchers, v \in Videos, d \in HeartbeatDurations,
          c \in Categories :
       now = 0 /\ RecordWatchHeartbeat("p1", u, v, d, c)
  \/ HB_Insert("p1")
  \/ HB_Update("p1")
  \/ HB_Del("p1")
  \/ GW_CacheGet("p1")
  \/ GW_DbRead("p1")
  \/ GW_CacheSet("p1")
  \/ ProcessPendingToAvailable("p1")
  \/ SW_Status("p1")
  \/ SW_Wallet("p1")
  \/ SW_Del("p1")

SpecMature == Init /\ [][NextMature]_vars

\* ------------------------------------------- the rate model on its own
\* one watch by u1, at any tier, over the wider range of durations and
\* categories
InitRate ==
  /\ wallet = [u \in Users |-> ZeroWallet]
  /\ ledger = <<>>
  /\ transactions = <<>>
  /\ redemptions = <<>>
  /\ cache = [u \in Users |-> Null]
  /\ users \in [Users -> [expert_status : Tiers]]
  /\ users["u2"].expert_status = "none"
  /\ now = 0
  /\ proc = [p \in Procs |-> Idle]
  /\ lastSweep = "none"

NextRate ==
  \/ \E d \in RateDurations, c \in RateCategories :
       Writes = 0 /\ RecordWatchEvent("p1", "u1", "v1", d, c)
  \/ WE_Update("p1")
  \/ WE_Del("p1")
  \/ \E d \in RateDurations, c \in RateCategories :
       Writes = 0 /\ RecordWatchHeartbeat("p1", "u1", "v1", d, c)
  \/ HB_Insert("p1")
  \/ HB_Update("p1")
  \/ HB_Del("p1")
  \/ GW_CacheGet("p1")
  \/ GW_DbRead("p1")
  \/ GW_CacheSet("p1")
  \/ Return("p1")

SpecRate == InitRate /\ [][NextRate]_vars

\* ================================================================ claims
Quiescent == \A p \in Procs : proc[p].pc \in {"idle", "done"}

RECURSIVE SumPoints(_, _)
SumPoints(table, ids) ==
  IF ids = {} THEN 0
  ELSE LET i == CHOOSE j \in ids : TRUE
       IN  table[i].points + SumPoints(table, ids \ {i})

RowsOf(u, status) ==
  {i \in DOMAIN ledger : ledger[i].user_id = u /\ ledger[i].status = status}

\* C1: in every quiescent state, pending_points of every user equals the
\* sum of the points of the user's ledger entries whose status is POSTED.
C1_PendingReconciled ==
  Quiescent =>
    \A u \in Users :
      wallet[u] # Null =>
        wallet[u].pending_points = SumPoints(ledger, RowsOf(u, "POSTED"))

\* C2: in every quiescent state, available_points of every user equals the
\* sum of the points of the user's AVAILABLE entries minus the sum of the
\* magnitudes of the user's REDEEMED debits (whose points are negative).
C2_AvailableReconciled ==
  Quiescent =>
    \A u \in Users :
      wallet[u] # Null =>
        wallet[u].available_points =
          SumPoints(ledger, RowsOf(u, "AVAILABLE"))
            + SumPoints(ledger, RowsOf(u, "REDEEMED"))

\* C3: under every interleaving of redemptions the committed REDEEMED
\* debits of a user never exceed the points that matured for the user, and
\* available_points never goes below zero.
C3_NoOverdraft ==
  \A u \in Users :
    wallet[u] # Null =>
      /\ wallet[u].available_points >= 0
      /\ 0 - SumPoints(ledger, RowsOf(u, "REDEEMED"))
           <= SumPoints(ledger, RowsOf(u, "AVAILABLE"))

\* C4: overlapping sweeps move the points of an entry from pending to
\* available at most once: what a wallet holds as available, plus what
\* has been debited from it, never exceeds the points of the user's
\* AVAILABLE entries.
C4_MaturedAtMostOnce ==
  \A u \in Users :
    wallet[u] # Null =>
      wallet[u].available_points - SumPoints(ledger, RowsOf(u, "REDEEMED"))
        <= SumPoints(ledger, RowsOf(u, "AVAILABLE"))

\* a step in which handler p is called for operation op
Called(p, op) == proc[p].pc = "idle" /\ proc'[p].op = op

\* C5: a sweep that is run right after a completed sweep, at the same
\* clock and over the same ledger entries, selects nothing: it ends at
\* once and changes no ledger status and no wallet balance.
C5_SecondSweepNoOp ==
  [][\A p \in Procs :
       (Called(p, "sweep") /\ SameEntrySet) =>
         /\ proc'[p].pc = "done"
         /\ ledger' = ledger
         /\ wallet' = wallet]_vars

\* a repeated sweep has completed over a ledger with a matured entry
C5_Witness ==
  /\ lastSweep = "again"
  /\ \E i \in DOMAIN ledger : ledger[i].status = "AVAILABLE"

\* C6: an EARN entry posted at T is never AVAILABLE before T + 30 days, and
\* a user none of whose EARN entries is 30 days old has no available points.
C6_HoldingPeriod ==
  /\ \A i \in DOMAIN ledger :
       (ledger[i].transaction_type = "EARN" /\ ledger[i].status = "AVAILABLE")
         => now >= ledger[i].posted_at + HoldingDays
  /\ \A u \in Users :
       (/\ wallet[u] # Null
        /\ \A i \in Rows(ledger, "EARN") :
             ledger[i].user_id = u => now < ledger[i].posted_at + HoldingDays)
         => wallet[u].available_points = 0

\* an entry has matured exactly when its holding period ended, next to an
\* entry that is still held
C6_Witness ==
  \E i, j \in DOMAIN ledger :
    /\ ledger[i].status = "AVAILABLE"
    /\ now = ledger[i].posted_at + HoldingDays
    /\ wallet[ledger[i].user_id].available_points = ledger[i].points
    /\ ledger[j].status = "POSTED"
    /\ now < ledger[j].posted_at + HoldingDays

Short(u, amt) == wallet[u] = Null \/ wallet[u].available_points < amt

Rejected(r) == r.pc = "done" /\ r.result = "error"

\* C7: redeemPoints(userId, p) called while the user's available points are
\* below p (or there is no wallet) does not go on to redeem: it either
\* fails at once or reads the store, a read that finds less than p fails,
\* and a failure creates no request, no ledger entry and no wallet change.
C7_InsufficientRejected ==
  [][\A p \in Procs :
       /\ (Called(p, "redeem") /\ Short(proc'[p].user, proc'[p].amount)) =>
            (Rejected(proc'[p]) \/ proc'[p].pc = "gw_read")
       /\ (/\ proc[p].op = "redeem"
           /\ proc[p].pc = "gw_set"
           /\ proc'[p] # proc[p]
           /\ proc[p].w.available_points < proc[p].amount) =>
            Rejected(proc'[p])
       /\ (proc[p].op = "redeem" /\ proc[p] # proc'[p] /\ Rejected(proc'[p])) =>
            (wallet' = wallet /\ ledger' = ledger /\
             redemptions' = redemptions)]_vars

\* a step of a watch recording by handler p, and the duration it is about
WatchStep(p) ==
  /\ proc'[p] # proc[p]
  /\ proc[p].pc # "done"
  /\ proc'[p].op \in {"watchEvent", "heartbeat"}

WatchDuration(p) == IF proc[p].pc = "idle" THEN proc'[p].dur ELSE proc[p].dur

\* C8: on both watch-recording entry points a watch shorter than 5 seconds
\* appends nothing to the ledger or the transactions, leaves every wallet
\* unchanged and is not an error.
C8_ShortWatchEarnsNothing ==
  [][\A p \in Procs :
       (WatchStep(p) /\ WatchDuration(p) < MinWatchSeconds) =>
         /\ ledger' = ledger
         /\ transactions' = transactions
         /\ wallet' = wallet
         /\ proc'[p].result # "error"]_vars

\* floor((duration / 600) * rate * multiplier), one floor over the product
ClaimedPoints(duration, category, multiplier) ==
  (duration * RatePerTenMin(category) * multiplier) \div RateWindowSeconds

\* C9: the points credited for a watch of at least 5 seconds equal
\* floor((duration / 600) * rate * multiplier) with the multiplier of the
\* user's tier on a heartbeat (and no multiplier on a watch event).
C9_RateFormula ==
  \A p \in Procs :
    (proc[p].pc \in {"we_update", "hb_update"} /\
     proc[p].dur >= MinWatchSeconds) =>
      proc[p].points =
        ClaimedPoints(proc[p].dur, proc[p].cat,
                      IF proc[p].op = "heartbeat"
                      THEN TierMultiplier(users[proc[p].user].expert_status)
                      ELSE 1)

\* C10: a watch recording that earns points > 0 appends exactly one EARN
\* entry with status POSTED, availableAt = now + 30 days and expiresAt =
\* availableAt + 90 days, and then adds exactly those points to
\* pending_points and nothing to available_points.
C10_EarnPosting ==
  [][\A p \in Procs :
       /\ (proc[p].pc # proc'[p].pc /\
           proc'[p].pc \in {"we_update", "hb_update"}) =>
            /\ ledger' = Append(ledger,
                                EarnRow(proc'[p].user, proc'[p].video,
                                        proc'[p].points, now))
            /\ ledger'[Len(ledger')].available_at = now + HoldingDays
            /\ ledger'[Len(ledger')].expires_at =
                 now + HoldingDays + ExpiryDays
            /\ wallet' = wallet
       /\ (proc[p].pc \in {"we_update", "hb_update"} /\
           proc[p].pc # proc'[p].pc) =>
            /\ wallet' = ApplyDelta(wallet, proc[p].user, proc[p].points, 0)
            /\ wallet'[proc[p].user].pending_points =
                 wallet[proc[p].user].pending_points + proc[p].points
            /\ wallet'[proc[p].user].available_points =
                 wallet[proc[p].user].available_points
            /\ ledger' = ledger]_vars

\* the redemption requests of user u that are PENDING
PendingRequests(u) ==
  {i \in DOMAIN redemptions :
     redemptions[i].user_id = u /\ redemptions[i].status = "PENDING"}

RECURSIVE SumAmounts(_, _)
SumAmounts(table, ids) ==
  IF ids = {} THEN 0
  ELSE LET i == CHOOSE j \in ids : TRUE
       IN  table[i].amount_points + SumAmounts(table, ids \ {i})

\* C11: whenever no handler is running, also after the store has failed a
\* query of redeemPoints, every user has as many PENDING redemption
\* requests as REDEEMED ledger entries, the entries carry minus the
\* requested points, and available_points is the matured points less the
\* requested points: request, ledger entry and debit exist together.
C11_AtomicRedemption ==
  Quiescent =>
    \A u \in Users :
      wallet[u] # Null =>
        /\ Cardinality(PendingRequests(u))
             = Cardinality(RowsOf(u, "REDEEMED"))
        /\ SumAmounts(redemptions, PendingRequests(u))
             = 0 - SumPoints(ledger, RowsOf(u, "REDEEMED"))
        /\ wallet[u].available_points
             = SumPoints(ledger, RowsOf(u, "AVAILABLE"))
                 - SumAmounts(redemptions, PendingRequests(u))

RECURSIVE SumEarned(_, _)
SumEarned(table, ids) ==
  IF ids = {} THEN 0
  ELSE LET i == CHOOSE j \in ids : TRUE
       IN  table[i].amount + SumEarned(table, ids \ {i})

\* the points of the earn entries appended for user u: the EARN rows of the
\* ledger (watch events) and the earn rows of transactions (heartbeats)
Appended(u) ==
  SumPoints(ledger, {i \in Rows(ledger, "EARN") : ledger[i].user_id = u})
    + SumEarned(transactions,
                {i \in DOMAIN transactions : transactions[i].user_id = u})

\* the recordings of user u that have appended their entry and have not
\* reached their wallet UPDATE yet
Crediting(u) ==
  {p \in Procs : proc[p].user = u /\ proc[p].pc \in {"we_update", "hb_update"}}

RECURSIVE SumCrediting(_)
SumCrediting(ps) ==
  IF ps = {} THEN 0
  ELSE LET p == CHOOSE q \in ps : TRUE
       IN  proc[p].points + SumCrediting(ps \ {p})

C13_LedgerImmutable ==
  [][/\ Len(ledger') >= Len(ledger)
     /\ \A i \in DOMAIN ledger :
          [ledger'[i] EXCEPT !.status = ledger[i].status] = ledger[i]]_vars

\* an entry has matured and a redemption entry was appended after it
C13_Witness ==
  \E i, j \in DOMAIN ledger :
    /\ i < j
    /\ ledger[i].transaction_type = "EARN"
    /\ ledger[i].status = "AVAILABLE"
    /\ ledger[j].transaction_type = "REDEEMED"

\* a handler has run a wallet UPDATE of user u and has not yet reached the
\* cache.del that ends its write
Writing(u) ==
  \E p \in Procs :
    \/ /\ proc[p].user = u
       /\ proc[p].pc \in {"we_del", "hb_del", "rd_ledger", "rd_del"}
    \/ proc[p].pc = "sw_del" /\ ledger[Head(proc[p].sel)].user_id = u

\* C14: once every wallet write of a user has completed (its cache.del has
\* run), the cache holds for that user either nothing or the wallet row as
\* written, so no getWallet serves or stores an older value.
C14_CacheFresh ==
  \A u \in Users :
    (cache[u] # Null /\ ~Writing(u)) => cache[u] = wallet[u]

\* a step in which handler p takes a request for the process-pending
\* endpoint
ProcessPendingCalled(p) ==
  proc[p].pc = "idle" /\ proc'[p].op \in {"processPending", "sweep"}

\* C15: a request to the process-pending endpoint by a caller who is not an
\* authenticated ADMIN is answered with an error at once and changes no
\* ledger entry and no wallet, and every handler that is inside the sweep
\* was called by an ADMIN.
C15_AdminOnly ==
  [][\A p \in Procs :
       /\ (ProcessPendingCalled(p) /\ proc'[p].role # "ADMIN") =>
            /\ proc'[p].pc = "done"
            /\ proc'[p].result \in {"forbidden", "unauthorized"}
            /\ ledger' = ledger
            /\ wallet' = wallet
       /\ proc'[p].pc \in {"sw_status", "sw_wallet", "sw_del"} =>
            proc'[p].role = "ADMIN"]_vars

\* a USER has been refused while an entry was ready to mature, and the
\* entry is still POSTED and still pending
C15_Witness ==
  \E p \in Procs, i \in DOMAIN ledger :
    /\ proc[p].op = "processPending"
    /\ proc[p].role = "USER"
    /\ proc[p].result = "forbidden"
    /\ Maturable(ledger[i], now)
    /\ wallet[ledger[i].user_id].pending_points = ledger[i].points

\* C16: whenever no handler is running, every user that has a users row
\* has a wallet row, and a step that creates a wallet row creates it with
\* pending_points, available_points, total_earned and total_redeemed zero.
C16_WalletAtRegistration ==
  [][/\ Quiescent' =>
          \A u \in Users : users'[u] # Null => wallet'[u] # Null
     /\ \A u \in Users :
          (wallet[u] = Null /\ wallet'[u] # Null) =>
            wallet'[u] = ZeroWallet]_vars

\* the idempotency token of an EARN entry: user, video and time bucket (the
\* day the entry was posted)
Token(row) == <<row.user_id, row.video_id, row.posted_at>>

\* C17: watch events that carry the same idempotency token append at most
\* one EARN entry, so they credit pending_points at most once.
C17_OneEntryPerToken ==
  \A i, j \in Rows(ledger, "EARN") :
    Token(ledger[i]) = Token(ledger[j]) => i = j

\* a step in which handler p takes a request for the redeem endpoint
RedeemCalled(p) ==
  proc[p].pc = "idle" /\ proc'[p].op \in {"redeemRequest", "redeem"}

\* C18: a request to redeem fewer than 100 points (zero and negative
\* amounts too) is answered with a validation error at once and creates no
\* redemption request, no ledger entry and no wallet change, and every
\* handler that is inside redeemPoints redeems at least 100 points.
C18_MinimumRedemption ==
  [][\A p \in Procs :
       /\ (RedeemCalled(p) /\ proc'[p].amount < MinRedeemPoints) =>
            /\ proc'[p].pc = "done"
            /\ proc'[p].result = "invalid"
            /\ redemptions' = redemptions
            /\ ledger' = ledger
            /\ wallet' = wallet
       /\ proc'[p].op = "redeem" => proc'[p].amount >= MinRedeemPoints]_vars

\* a request for 99 points has been refused although the user had the
\* points
C18_Witness ==
  \E p \in Procs :
    /\ proc[p].op = "redeemRequest"
    /\ proc[p].amount = MinRedeemPoints - 1
    /\ proc[p].result = "invalid"
    /\ wallet[proc[p].user].available_points >= proc[p].amount
    /\ redemptions = <<>>

\* C19: once a sweep has run to completion over the present ledger, also
\* when an earlier sweep stopped between two of its queries, the points of
\* every entry have been moved exactly once: pending_points is the sum of
\* the POSTED entries and available_points the sum of the AVAILABLE ones.
C19_CrashSafeSweep ==
  (Quiescent /\ lastSweep # "none") =>
    \A u \in Users :
      /\ wallet[u].pending_points = SumPoints(ledger, RowsOf(u, "POSTED"))
      /\ wallet[u].available_points
           = SumPoints(ledger, RowsOf(u, "AVAILABLE"))

\* the AVAILABLE entries of user u whose expires_at has not passed
Unexpired(u) ==
  {i \in RowsOf(u, "AVAILABLE") : ledger[i].expires_at > now}

\* C20: once a sweep has run to completion at the present clock, no entry
\* whose expires_at has passed is still AVAILABLE (it has been moved to
\* EXPIRED), and available_points counts only the entries that have not
\* expired: the points of the expired ones are forfeited.
C20_Expiration ==
  (Quiescent /\ lastSweep # "none") =>
    /\ \A i \in DOMAIN ledger :
         (ledger[i].transaction_type = "EARN" /\ ledger[i].expires_at <= now)
           => ledger[i].status = "EXPIRED"
    /\ \A u \in Users :
         wallet[u].available_points = SumPoints(ledger, Unexpired(u))

\* a step taken by handler p inside a sweep
SweepStep(p) == proc[p].op = "sweep" /\ proc'[p] # proc[p]

\* C21: the step of a sweep that updates the wallet for an entry takes
\* exactly the entry's points from the owner's pending_points and adds them
\* to the owner's available_points; every step of a sweep leaves pending +
\* available, total_earned and total_redeemed of every user unchanged and
\* touches no wallet but the owner's.
C21_SweepDeltaAndFrame ==
  [][\A p \in Procs :
       SweepStep(p) =>
         /\ \A u \in Users :
              /\ wallet'[u].pending_points + wallet'[u].available_points
                   = wallet[u].pending_points + wallet[u].available_points
              /\ wallet'[u].total_earned = wallet[u].total_earned
              /\ wallet'[u].total_redeemed = wallet[u].total_redeemed
         /\ IF proc[p].pc = "sw_wallet"
            THEN LET row == ledger[Head(proc[p].sel)]
                     own == row.user_id
                 IN  /\ wallet'[own].pending_points
                          = wallet[own].pending_points - row.points
                     /\ wallet'[own].available_points
                          = wallet[own].available_points + row.points
                     /\ \A u \in Users \ {own} : wallet'[u] = wallet[u]
            ELSE wallet' = wallet]_vars

\* a sweep has just moved the points of an entry of one user while another
\* user holds pending points of its own
C21_Witness ==
  \E p \in Procs :
    /\ proc[p].pc = "sw_del"
    /\ LET row == ledger[Head(proc[p].sel)]
       IN  /\ wallet[row.user_id].available_points = row.points
           /\ wallet[row.user_id].pending_points = 0
           /\ \E u \in Users \ {row.user_id} : wallet[u].pending_points > 0

\* the entries the claim wants matured: POSTED and availableAt <= now
Due == {i \in DOMAIN ledger :
          ledger[i].status = "POSTED" /\ ledger[i].available_at <= now}

SeqRange(s) == {s[k] : k \in DOMAIN s}

\* C22: a sweep called at time now selects exactly the entries that are
\* POSTED with availableAt <= now, each once (it ends at once when there is
\* none), and for every POSTED entry the code's test posted_at <= now - 30
\* days agrees with availableAt <= now.
C22_SweepSelection ==
  [][/\ \A p \in Procs :
          Called(p, "sweep") =>
            IF proc'[p].pc = "done" THEN Due = {}
            ELSE /\ SeqRange(proc'[p].sel) = Due
                 /\ Len(proc'[p].sel) = Cardinality(Due)
     /\ \A i \in DOMAIN ledger :
          ledger[i].status = "POSTED" =>
            (Maturable(ledger[i], now) <=> ledger[i].available_at <= now)]_vars

\* a sweep has selected an entry that is exactly 30 days old and has left
\* out a POSTED entry of today
C22_Witness ==
  \E p \in Procs, j \in DOMAIN ledger :
    /\ proc[p].pc = "sw_status"
    /\ ledger[Head(proc[p].sel)].posted_at = now - HoldingDays
    /\ ledger[j].status = "POSTED"
    /\ ledger[j].posted_at = now
    /\ j \notin SeqRange(proc[p].sel)

\* C23: when every watch was recorded on day 0, through either entry point,
\* and a sweep has run to completion after the 30 days have passed, no
\* credited point is still pending.
C23_EventualMaturation ==
  (Quiescent /\ lastSweep # "none" /\ now >= HoldingDays) =>
    \A u \in Users : wallet[u].pending_points = 0

\* ------------------------------------- the rate model at every stored tier
InitTier ==
  /\ wallet = [u \in Users |-> ZeroWallet]
  /\ ledger = <<>>
  /\ transactions = <<>>
  /\ redemptions = <<>>
  /\ cache = [u \in Users |-> Null]
  /\ users \in [Users -> [expert_status : StoredTiers]]
  /\ users["u2"].expert_status = "none"
  /\ now = 0
  /\ proc = [p \in Procs |-> Idle]
  /\ lastSweep = "none"

SpecTier == InitTier /\ [][NextRate]_vars

\* the multipliers the claim names
ClaimedMultiplier == [none |-> 1, pending |-> 3, verified |-> 5]

\* C24: a heartbeat of a user of tier none, pending or verified goes on with
\* the multiplier 1, 3 or 5; a heartbeat of a user with any other tier
\* value fails at once and writes no row and changes no wallet.
C24_TierDomain ==
  [][\A p \in Procs :
       LET tier == users[proc'[p].user].expert_status
       IN  /\ Called(p, "heartbeat") =>
                IF tier \in DOMAIN ClaimedMultiplier
                THEN /\ proc'[p].pc = "hb_insert"
                     /\ proc'[p].mult = ClaimedMultiplier[tier]
                ELSE /\ proc'[p].pc = "done"
                     /\ proc'[p].result = "error"
           /\ (proc'[p].op = "heartbeat" /\
               tier \notin DOMAIN ClaimedMultiplier) =>
                /\ wallet' = wallet
                /\ transactions' = transactions
                /\ ledger' = ledger]_vars

\* --------------------------------------- the rate lookup at every category
\* one watch by u1 (verified): a watch event with a category the route lets
\* through, or a heartbeat with any category
NextCategory ==
  \/ \E d \in RateDurations, c \in RateCategories :
       Writes = 0 /\ RecordWatchEvent("p1", "u1", "v1", d, c)
  \/ WE_Update("p1")
  \/ WE_Del("p1")
  \/ \E d \in RateDurations, c \in HeartbeatCategories :
       Writes = 0 /\ RecordWatchHeartbeat("p1", "u1", "v1", d, c)
  \/ HB_Insert("p1")
  \/ HB_Update("p1")
  \/ HB_Del("p1")
  \/ GW_CacheGet("p1")
  \/ GW_DbRead("p1")
  \/ GW_CacheSet("p1")
  \/ Return("p1")

SpecCategory == Init /\ [][NextCategory]_vars

\* the five categories the claim names
KnownCategories ==
  {"FINANCE", "HEALTH", "FITNESS", "EDUCATION", "ENTERTAINMENT"}

\* C25: a watch whose category is none of the five upper-case keys is paid
\* at the default rate of 100 points per 600 seconds, and no known category
\* has a lower rate.
C25_UnknownCategory ==
  [][/\ \A k \in KnownCategories : DefaultRate <= EARNING_RATES[k]
     /\ \A p \in Procs :
          /\ (Called(p, "watchEvent") /\ proc'[p].pc = "we_update" /\
              proc'[p].cat \notin KnownCategories) =>
               proc'[p].points = BasePoints(proc'[p].dur, DefaultRate)
          /\ (proc[p].pc = "hb_insert" /\ proc'[p] # proc[p] /\
              proc[p].cat \notin KnownCategories) =>
               LET pts == BasePoints(proc[p].dur, DefaultRate) * proc[p].mult
               IN  IF pts > 0
                   THEN /\ proc'[p].pc = "hb_update"
                        /\ proc'[p].points = pts
                   ELSE proc'[p].pc # "hb_update"]_vars

\* C26: whenever no handler is running, total_earned of every user is the
\* sum of the points of the user's earn credits and total_redeemed is the
\* sum of the points of the user's redemption debits.
C26_LifetimeTotals ==
  Quiescent =>
    \A u \in Users :
      /\ wallet[u].total_earned = Appended(u)
      /\ wallet[u].total_redeemed
           = SumAmounts(redemptions, PendingRequests(u))

\* C27: no step drops a user's wallet row (the balances are kept), no step
\* removes or shortens the ledger entries, and an entry is appended only
\* for a user who has a wallet to apply its points to.
C27_AccountDeletion ==
  [][/\ \A u \in Users : wallet[u] # Null => wallet'[u] # Null
     /\ Len(ledger') >= Len(ledger)
     /\ \A i \in DOMAIN ledger :
          /\ ledger'[i].user_id = ledger[i].user_id
          /\ ledger'[i].points = ledger[i].points
     /\ Len(ledger') > Len(ledger) =>
          wallet[ledger'[Len(ledger')].user_id] # Null]_vars

\* the sweep of worker p ends in this step, and the number of entries it
\* has set to AVAILABLE
SweepEnds(p) ==
  /\ proc[p].pc \in {"idle", "sw_del"}
  /\ proc'[p].pc = "done"
  /\ proc'[p].op = "sweep"
  /\ proc'[p].result = "ok"

Transitioned(p) == IF proc[p].pc = "idle" THEN 0 ELSE proc[p].n

\* C28: a sweep that ends hands back the number of entries it has set from
\* POSTED to AVAILABLE in this run.
C28_SweepResult ==
  [][\A p \in Procs :
       SweepEnds(p) => SweepReturn(Transitioned(p)) = Transitioned(p)]_vars

\* C29: the redemption request that a handler stores carries the redemption
\* type its caller asked for, the points asked for and the status PENDING.
C29_RedemptionMethod ==
  [][\A p \in Procs :
       (proc[p].pc = "rd_request" /\ proc'[p].pc = "rd_wallet") =>
         /\ Len(redemptions') = Len(redemptions) + 1
         /\ LET row == redemptions'[Len(redemptions')]
            IN  /\ row.redemption_type = proc[p].method
                /\ row.amount_points = proc[p].amount
                /\ row.status = "PENDING"]_vars

\* C30: in every state, also while handlers overlap, pending_points and
\* available_points of every wallet are at least 0.
C30_NonNegativeBalances ==
  \A u \in Users :
    wallet[u] # Null =>
      /\ wallet[u].pending_points >= 0
      /\ wallet[u].available_points >= 0
====
